---- MODULE Spec2Model ----
(***************************************************************************)
(* Model of the asynchronous two-stage video generation pipeline of        *)
(* src/services/geminiService.ts (generateVideoFromImage and               *)
(* fetchAndCreateUrl) and of the App component of src/App.tsx that drives  *)
(* it.  One run of generateVideoFromImage, and one invocation of           *)
(* handleGenerateClick, is a sequential flow that suspends at every await; *)
(* each action below is the code that runs between two suspension points.  *)
(* The remote service, the download transport, process.env, the browser's  *)
(* file and video decoding and the user are the environment: their answers *)
(* and inputs are drawn from small sets.                                   *)
(*                                                                         *)
(* Text is modelled as a sequence of tokens (words, punctuation marks,     *)
(* single digits), so that String.prototype.includes is a real search for  *)
(* a contiguous sub-sequence.                                              *)
(*                                                                         *)
(* Three specifications share the actions of the pipeline:                 *)
(*   Spec      generateVideoFromImage under any caller, with the richest   *)
(*             set of raw error messages;                                  *)
(*   LiveSpec  the same with timers that fire and calls that settle, for   *)
(*             termination;                                                *)
(*   AppSpec   the App component calling it from handleGenerateClick,      *)
(*             with the user editing the controls in between and, up to    *)
(*             MaxEdits times, while an attempt is in flight.              *)
(***************************************************************************)
EXTENDS Naturals, Sequences, FiniteSets

VARIABLES
    envKey,              \* process.env.API_KEY ("" stands for unset/empty)
    pc,                  \* where the run of generateVideoFromImage stands
    prompt,              \* parameters of the run
    imageBase64,
    imageMimeType,
    aspectRatio,
    duration,
    apiKey,              \* const apiKey of the run
    firstOperation,      \* let firstOperation
    extensionOperation,  \* let extensionOperation
    trace,               \* what the run has done so far, in program order
    thrown,              \* the raw error raised in the run, if any
    classified,          \* how many times the catch block has run
    result               \* value the returned promise settled with

\* the state of the App component of src/App.tsx (useState, lines 72-84)
VARIABLES
    apiKeySelected,
    uiPrompt,            \* const [prompt, setPrompt]
    mediaFile,
    mediaType,
    uiAspectRatio,       \* const [aspectRatio, setAspectRatio]
    uiDuration,          \* const [duration, setDuration]
    isLoading,
    loadingMessage,
    generatedVideoUrl,
    error,
    keyCheck,            \* whether checkApiKey of the mount effect has answered
    handler,             \* where the invocation of handleGenerateClick stands
    closure,             \* the state values that invocation closed over
    invocations,         \* invocations of handleGenerateClick not yet finished
    edits                \* edits of the controls since the Generate click

appVars == << apiKeySelected, uiPrompt, mediaFile, mediaType, uiAspectRatio,
              uiDuration, isLoading, loadingMessage, generatedVideoUrl,
              error, keyCheck, handler, closure, invocations, edits >>

vars == << envKey, pc, prompt, imageBase64, imageMimeType, aspectRatio,
           duration, apiKey, firstOperation, extensionOperation, trace,
           thrown, classified, result, appVars >>

----------------------------------------------------------------------------
(* Bounds of the model *)

\* the user edits the controls at most this many times while an invocation
\* of handleGenerateClick is in flight
MaxEdits == 1

\* the service reports an operation done after at most this many polls
MaxPolls == 2

\* a raw error message is the concatenation of at most this many fragments
MaxFragments == 2

----------------------------------------------------------------------------
(* Program constants *)

PollIntervalMs == 20000
SettleDelayMs == 3000

INITIAL == "INITIAL"
EXTENSION == "EXTENSION"

FastModel == "veo-3.1-fast-generate-preview"
ExtensionModel == "veo-3.1-generate-preview"

WarmingUp == "Warming up the creativity engine..."
GeneratingInitial == "Generating initial scene... this can take a few minutes."
FinalizingInitial == "Finalizing initial scene..."
ExtendingVideo == "Extending video... this will take a few more minutes."
DownloadingVideo == "Downloading your video..."
DownloadingExtended == "Downloading your extended video..."

RESOURCE_EXHAUSTED == << "RESOURCE_EXHAUSTED" >>
Code429 == << "4", "2", "9" >>
EntityNotFound == << "Requested", "entity", "was", "not", "found" >>

MissingKeyMessage ==
    << "API", "Key", "not", "found", ".", "Please", "select", "an", "API",
       "key", "." >>
RateLimitMessage ==
    << "Rate", "limit", "exceeded", ".", "You've", "made", "too", "many",
       "requests", "in", "a", "short", "period", ".", "Please", "wait", "a",
       "moment", "and", "try", "again", "." >>
InvalidKeyMessage ==
    << "API", "key", "is", "invalid", "or", "not", "found", ".", "Please",
       "re-select", "your", "API", "key", "." >>
FallbackMessage ==
    << "An", "unknown", "error", "occurred", "while", "communicating",
       "with", "the", "API", "." >>
NoDownloadLinkMessage ==
    << "Video", "generation", "failed", ":", "No", "download", "link", "was",
       "returned", "." >>
NoInitialVideoMessage ==
    << "Failed", "to", "get", "initial", "video", "for", "extension", "." >>
NoExtendedLinkMessage ==
    << "Video", "extension", "failed", ":", "No", "download", "link", "was",
       "returned", "." >>
DownloadFailedPrefix == << "Failed", "to", "download", "video", ":" >>

----------------------------------------------------------------------------
(* Values the environment can supply *)

NoKey == ""
Keys == { "key1", "key2" }
EnvKeys == Keys \cup { NoKey }

Prompts == { "a calm sea", "a storm" }
Images == { << "imgA", "image/png" >> }
AspectRatios == { "16:9", "9:16" }
Durations == { "short", "long" }

NoUri == ""
Uris == { "https://dl/v1?alt=media", "https://dl/v2?alt=media" }

\* operation.response.generatedVideos[0].video, present or not
NoVideo == [ present |-> FALSE, uri |-> NoUri ]
Videos == { [ present |-> TRUE, uri |-> u ] : u \in Uris \cup { NoUri } }

NoImage == [ imageBytes |-> "", mimeType |-> "" ]

\* an operation snapshot; a response is carried only by a done operation
PendingOperation == [ done |-> FALSE, video |-> NoVideo ]
DoneOperations == { [ done |-> TRUE, video |-> v ] : v \in Videos \cup { NoVideo } }
Operations == DoneOperations \cup { PendingOperation }

NoError == [ step |-> "none", message |-> << >> ]

\* response.statusText of a download that is not ok
StatusTexts == { << >>, << "Forbidden" >>, Code429, EntityNotFound }

\* message of the error fetch() or response.blob() rejects with
NetworkMessages == { << >>, << "Failed", "to", "fetch" >>, RESOURCE_EXHAUSTED }

\* pieces a raw error message of the service or the transport is made of
Fragments ==
    { RESOURCE_EXHAUSTED, Code429, EntityNotFound,
      << "requested", "entity", "was", "not", "found" >>,
      << "4", "2" >>, << "quota" >> }

RECURSIVE MessagesOf(_)
MessagesOf(n) ==
    IF n = 0 THEN { << >> }
    ELSE LET shorter == MessagesOf(n - 1)
         IN  shorter \cup { m \o f : m \in shorter, f \in Fragments }

\* error.message of a raw error; << >> is an empty or absent message
RawMessages == MessagesOf(MaxFragments)

----------------------------------------------------------------------------
(* Pure parts of the code *)

\* String.prototype.includes: marker occurs as a contiguous part of message
Includes(message, marker) ==
    \E i \in 0 .. Len(message) :
        /\ i + Len(marker) <= Len(message)
        /\ SubSeq(message, i + 1, i + Len(marker)) = marker

\* every message taken for a non-empty one
TruthyAlways(message) == TRUE

\* a JavaScript string used as a condition
Truthy(message) == message # << >>

IsRateLimit(message) ==
    Truthy(message)
    /\ (Includes(message, RESOURCE_EXHAUSTED) \/ Includes(message, Code429))

\* the marker compared with the whole message
IsEntityNotFoundExact(message) ==
    Truthy(message) /\ message = EntityNotFound

IsEntityNotFound(message) ==
    Truthy(message) /\ Includes(message, EntityNotFound)

\* the two tests of the catch block in the other order
ClassifyEntityFirst(message) ==
    IF IsEntityNotFound(message) THEN InvalidKeyMessage
    ELSE IF IsRateLimit(message) THEN RateLimitMessage
    ELSE IF Truthy(message) THEN message
    ELSE FallbackMessage

\* the catch block: the message of the error that is rethrown
Classify(message) ==
    IF IsRateLimit(message) THEN RateLimitMessage
    ELSE IF IsEntityNotFound(message) THEN InvalidKeyMessage
    ELSE IF Truthy(message) THEN message
    ELSE FallbackMessage

\* the credential test left out
KeyMissingNever(key) == FALSE

\* if (!apiKey)
KeyMissing(key) == key = NoKey

\* the loop condition inverted
FirstNotDoneInverted(operation) == operation.done

\* while (!firstOperation.done), while (!extensionOperation.done)
FirstNotDone(operation) == ~operation.done
ExtensionNotDone(operation) == ~operation.done

\* every duration taken for long
IsLongAlways(d) == TRUE

\* duration === 'long', line 69
IsLong(d) == d = "long"

\* the short branch taken for no duration
IsShortNever(d) == FALSE
IsShort(d) == d = "short"

\* operation.response?.generatedVideos?.[0]?.video?.uri
DownloadLinkOf(operation) ==
    IF operation.video.present THEN operation.video.uri ELSE NoUri

\* firstOperation.response?.generatedVideos?.[0]?.video
PreviousVideoOf(operation) == operation.video

\* the test of the previous video left out
VideoMissingNever(video) == FALSE

\* if (!downloadLink), if (!previousVideo), if (!extendedDownloadLink)
LinkMissing(link) == link = NoUri
VideoMissing(video) == ~video.present
ExtendedLinkMissing(link) == link = NoUri

\* the argument of the first ai.models.generateVideos call
InitialRequest(p, bytes, mime, ratio) ==
    [ model |-> FastModel, prompt |-> p,
      image |-> [ imageBytes |-> bytes, mimeType |-> mime ],
      video |-> NoVideo, aspectRatio |-> ratio ]

\* the extension submitted with the request image again
ExtensionRequestFromImage(p, previousVideo, bytes, mime, ratio) ==
    [ model |-> ExtensionModel, prompt |-> p,
      image |-> [ imageBytes |-> bytes, mimeType |-> mime ],
      video |-> NoVideo, aspectRatio |-> ratio ]

\* the argument of the second ai.models.generateVideos call
ExtensionRequest(p, previousVideo, bytes, mime, ratio) ==
    [ model |-> ExtensionModel, prompt |-> p, image |-> NoImage,
      video |-> previousVideo, aspectRatio |-> ratio ]

\* the credential read again from the environment at download time
DownloadUrlLatestKey(downloadLink, key, environmentKey) ==
    [ link |-> downloadLink, key |-> environmentKey ]

\* fetch(`${downloadLink}&key=${apiKey}`)
DownloadUrl(downloadLink, key, environmentKey) ==
    [ link |-> downloadLink, key |-> key ]

\* URL.createObjectURL(videoBlob): a handle on the body served at url
ObjectUrl(url) == << "blob:", url.link >>

\* new Error(`Failed to download video: ${response.statusText}`)
DownloadFailedMessage(statusText) == DownloadFailedPrefix \o statusText

----------------------------------------------------------------------------
(* The trace of a run: remote calls, timers and progress events *)

Event(kind, stage, a) == [ kind |-> kind, stage |-> stage, a |-> a ]

Progress(stage, message) == Event("progress", stage, message)
Submit(stage, request) == Event("submit", stage, request)
Timeout(stage, ms) == Event("timeout", stage, ms)
Poll(stage, operation) == Event("poll", stage, operation)
Returned(stage, operation) == Event("returned", stage, operation)
Fetch(stage, url) == Event("fetch", stage, url)

Count(kind, stage) ==
    Cardinality({ i \in DOMAIN trace :
                    trace[i].kind = kind /\ trace[i].stage = stage })

----------------------------------------------------------------------------
(* What the run does from one suspension point to the next.  Each operator *)
(* gives the run's next position, trace, raised error, number of passes    *)
(* through the catch block and settled value.                              *)

Suspended(at, tr) ==
    [ pc |-> at, trace |-> tr, thrown |-> thrown,
      classified |-> classified, result |-> result ]

\* an error raised inside the try block: the catch block rethrows
Caught(step, message, tr) ==
    [ pc |-> "rejected", trace |-> tr,
      thrown |-> [ step |-> step, message |-> message ],
      classified |-> classified + 1, result |-> Classify(message) ]

\* the download awaited inside the try block: its error is classified
UncaughtAwaited(step, message, tr) ==
    [ pc |-> "rejected", trace |-> tr,
      thrown |-> [ step |-> step, message |-> message ],
      classified |-> classified + 1, result |-> Classify(message) ]

\* an error that rejects the returned promise as it is
Uncaught(step, message, tr) ==
    [ pc |-> "rejected", trace |-> tr,
      thrown |-> [ step |-> step, message |-> message ],
      classified |-> classified, result |-> message ]

\* onProgress(...); return fetchAndCreateUrl(link, apiKey): the fetch is
\* issued and the try block is left with the pending promise
StartDownload(stage, message, link, tr) ==
    Suspended("fetch",
              tr \o << Progress(stage, message),
                       Fetch(stage, DownloadUrl(link, apiKey, envKey)) >>)

\* the short branch: lines 75-80
ShortBranch(operation, tr) ==
    LET downloadLink == DownloadLinkOf(operation)
    IN  IF LinkMissing(downloadLink)
        THEN Caught("result", NoDownloadLinkMessage, tr)
        ELSE StartDownload(INITIAL, DownloadingVideo, downloadLink, tr)

\* the second submit issued without a look at the previous video
ExtensionBranchUnchecked(operation, tr) ==
    Suspended("submit2",
              tr \o << Progress(EXTENSION, ExtendingVideo),
                       Submit(EXTENSION,
                              ExtensionRequest(prompt, PreviousVideoOf(operation),
                                               imageBase64, imageMimeType,
                                               aspectRatio)) >>)

\* "extending" announced only once the second submit has been issued
ExtensionBranchAnnouncingLate(operation, tr) ==
    LET previousVideo == PreviousVideoOf(operation)
    IN  IF VideoMissing(previousVideo)
        THEN Caught("result", NoInitialVideoMessage, tr)
        ELSE Suspended("submit2",
                       tr \o
                       << Submit(EXTENSION,
                                 ExtensionRequest(prompt, previousVideo,
                                                  imageBase64, imageMimeType,
                                                  aspectRatio)),
                          Progress(EXTENSION, ExtendingVideo) >>)

\* the extension branch up to the second submit: lines 84-99
ExtensionBranch(operation, tr) ==
    LET extending == tr \o << Progress(EXTENSION, ExtendingVideo) >>
        previousVideo == PreviousVideoOf(operation)
    IN  IF VideoMissing(previousVideo)
        THEN Caught("result", NoInitialVideoMessage, extending)
        ELSE Suspended("submit2",
                       extending \o
                       << Submit(EXTENSION,
                                 ExtensionRequest(prompt, previousVideo,
                                                  imageBase64, imageMimeType,
                                                  aspectRatio)) >>)

\* lines 74-99
AfterSettle(operation, tr) ==
    IF IsShort(duration) THEN ShortBranch(operation, tr)
    ELSE ExtensionBranch(operation, tr)

\* lines 69-72, then on
AfterFirstLoop(operation, tr) ==
    IF IsLong(duration)
    THEN Suspended("settle",
                   tr \o << Progress(INITIAL, FinalizingInitial),
                            Timeout(INITIAL, SettleDelayMs) >>)
    ELSE AfterSettle(operation, tr)

\* the "generating" event emitted inside the loop
FirstLoopAnnouncing(operation, tr) ==
    IF FirstNotDone(operation)
    THEN Suspended("wait1",
                   tr \o << Progress(INITIAL, GeneratingInitial),
                            Timeout(INITIAL, PollIntervalMs) >>)
    ELSE AfterFirstLoop(operation, tr)

\* the loop gives up after one poll, done or not
FirstLoopCapped(operation, tr) ==
    IF /\ FirstNotDone(operation)
       /\ SelectSeq(tr, LAMBDA e : e.kind = "poll" /\ e.stage = INITIAL) = << >>
    THEN Suspended("wait1", tr \o << Timeout(INITIAL, PollIntervalMs) >>)
    ELSE AfterFirstLoop(operation, tr)

\* the test of the first polling loop: lines 62-64
FirstLoop(operation, tr) ==
    IF FirstNotDone(operation)
    THEN Suspended("wait1", tr \o << Timeout(INITIAL, PollIntervalMs) >>)
    ELSE AfterFirstLoop(operation, tr)

\* lines 107-113
AfterExtensionLoop(operation, tr) ==
    LET extendedDownloadLink == DownloadLinkOf(operation)
    IN  IF ExtendedLinkMissing(extendedDownloadLink)
        THEN Caught("result", NoExtendedLinkMessage, tr)
        ELSE StartDownload(EXTENSION, DownloadingExtended,
                           extendedDownloadLink, tr)

\* the test of the second polling loop: lines 101-103
ExtensionLoop(operation, tr) ==
    IF ExtensionNotDone(operation)
    THEN Suspended("wait2", tr \o << Timeout(EXTENSION, PollIntervalMs) >>)
    ELSE AfterExtensionLoop(operation, tr)

Becomes(next) ==
    /\ pc' = next.pc
    /\ trace' = next.trace
    /\ thrown' = next.thrown
    /\ classified' = next.classified
    /\ result' = next.result

----------------------------------------------------------------------------
(* The App component of src/App.tsx: messages, values and pure helpers *)

ApiKeyMarker == << "API", "key" >>
ApiKeyErrorMessage ==
    << "API", "Key", "error", ".", "Please", "re-select", "your", "API",
       "key", "." >>
UnknownGenerationMessage ==
    << "An", "unknown", "error", "occurred", "during", "video",
       "generation", "." >>
ProvideInputsMessage ==
    << "Please", "provide", "a", "prompt", "and", "upload", "a", "file", "." >>
UnsupportedFileMessage ==
    << "Unsupported", "file", "type", ".", "Please", "upload", "an", "image",
       "or", "a", "video", "." >>
InvalidMediaTypeMessage == << "Invalid", "media", "type", "selected", "." >>
CanvasContextMessage == << "Could", "not", "get", "canvas", "context" >>
VideoLoadFailedMessage ==
    << "Failed", "to", "load", "video", "file", ".", "Ensure", "it", "is",
       "a", "valid", "format", "." >>
ExtractingFrame == "Extracting first frame from video..."

\* null of the string | null states
NoMessage == << >>
NoUrl == << >>
NoMediaType == "null"

\* File objects the user can pick; type is File.type in tokens
NoFile == [ present |-> FALSE, type |-> << >> ]
PngFile == [ present |-> TRUE, type |-> << "image", "/", "png" >> ]
Mp4File == [ present |-> TRUE, type |-> << "video", "/", "mp4" >> ]
TextFile == [ present |-> TRUE, type |-> << "text", "/", "plain" >> ]
Files == { PngFile, Mp4File, TextFile }
JpegType == << "image", "/", "jpeg" >>

\* what the user can type into the prompt box
TypedPrompts == Prompts \cup { "" }

\* the part after the comma of a data URL: a payload, or nothing when the
\* file is empty or the canvas has no pixels
FileBytes == { "imgA", "" }
FrameBytes == { "frameA", "" }

\* String.prototype.startsWith
StartsWith(text, prefix) ==
    /\ Len(text) >= Len(prefix)
    /\ SubSeq(text, 1, Len(prefix)) = prefix

\* handleFileChange, lines 107-118: the media type a file is given
MediaTypeOf(file) ==
    IF StartsWith(file.type, << "image", "/" >>) THEN "image"
    ELSE IF StartsWith(file.type, << "video", "/" >>) THEN "video"
    ELSE NoMediaType

\* the prompt left out of the test
InputsMissingFileOnly(p, file) == ~file.present

\* !prompt || !mediaFile: lines 123 and 290
InputsMissing(p, file) == p = "" \/ ~file.present

\* the Generate button ignores a run in flight (never the case in the code)
GenerateDisabledIdleOnly(loading, p, file) == InputsMissing(p, file)

\* disabled={isLoading || !prompt || !mediaFile}, line 290
GenerateDisabled(loading, p, file) == loading \/ InputsMissing(p, file)

\* a value a promise of handleGenerateClick rejects with: an Error carries
\* a message, the ProgressEvent of FileReader.onerror (line 20) has none
ErrorOf(message) == [ hasMessage |-> TRUE, message |-> message ]
ProgressEventError == [ hasMessage |-> FALSE, message |-> << >> ]

\* the test reads "API Key", the spelling of the missing-key message only
IsApiKeyErrorCapitalK(message) == Includes(message, << "API", "Key" >>)

\* e.message.includes("API key"), line 159
IsApiKeyError(message) == Includes(message, ApiKeyMarker)

\* the catch block of handleGenerateClick, lines 158-164: the error shown
\* and whether the key stays selected.  Reading .includes of an undefined
\* message throws inside the block, which then sets nothing.
CatchOutcome(e, shown, selected) ==
    IF ~e.hasMessage
    THEN [ error |-> shown, apiKeySelected |-> selected ]
    ELSE IF IsApiKeyError(e.message)
    THEN [ error |-> ApiKeyErrorMessage, apiKeySelected |-> FALSE ]
    ELSE [ error |-> IF Truthy(e.message) THEN e.message
                     ELSE UnknownGenerationMessage,
           apiKeySelected |-> selected ]

\* the component's closure of one render: what a handler created by that
\* render reads as prompt, mediaFile, mediaType, aspectRatio, duration
NoClosure ==
    [ prompt |-> "", mediaFile |-> NoFile, mediaType |-> NoMediaType,
      aspectRatio |-> "16:9", duration |-> "short" ]
RenderClosure ==
    [ prompt |-> uiPrompt, mediaFile |-> mediaFile, mediaType |-> mediaType,
      aspectRatio |-> uiAspectRatio, duration |-> uiDuration ]

----------------------------------------------------------------------------
(* Initial state: no run has been started *)

Init ==
    /\ envKey \in EnvKeys
    /\ pc = "idle"
    /\ prompt = "" /\ imageBase64 = "" /\ imageMimeType = ""
    /\ aspectRatio = "16:9" /\ duration = "short"
    /\ apiKey = NoKey
    /\ firstOperation = PendingOperation
    /\ extensionOperation = PendingOperation
    /\ trace = << >>
    /\ thrown = NoError
    /\ classified = 0
    /\ result = << >>
    /\ apiKeySelected = FALSE
    /\ uiPrompt = ""
    /\ mediaFile = NoFile
    /\ mediaType = NoMediaType
    /\ uiAspectRatio = "16:9"
    /\ uiDuration = "short"
    /\ isLoading = FALSE
    /\ loadingMessage = ""
    /\ generatedVideoUrl = NoUrl
    /\ error = NoMessage
    /\ keyCheck = "pending"
    /\ handler = "idle"
    /\ closure = NoClosure
    /\ invocations = 0
    /\ edits = 0

Settled == pc \in { "resolved", "rejected" }
Params == << prompt, imageBase64, imageMimeType, aspectRatio, duration >>
Operations12 == << firstOperation, extensionOperation >>

----------------------------------------------------------------------------
(* Actions *)

\* generateVideoFromImage is called: lines 28-58
Call(p, image, ratio, d) ==
    /\ pc = "idle" \/ Settled
    /\ prompt' = p
    /\ imageBase64' = image[1]
    /\ imageMimeType' = image[2]
    /\ aspectRatio' = ratio
    /\ duration' = d
    /\ apiKey' = envKey
    /\ firstOperation' = PendingOperation
    /\ extensionOperation' = PendingOperation
    /\ classified' = 0
    /\ IF KeyMissing(envKey)
       THEN /\ pc' = "rejected"
            /\ trace' = << >>
            /\ thrown' = [ step |-> "credential", message |-> MissingKeyMessage ]
            /\ result' = MissingKeyMessage
       ELSE /\ pc' = "submit1"
            /\ trace' = << Progress(INITIAL, WarmingUp),
                           Submit(INITIAL,
                                  InitialRequest(p, image[1], image[2], ratio)) >>
            /\ thrown' = NoError
            /\ result' = << >>
    /\ UNCHANGED envKey

\* the first generateVideos call answers: lines 46, 60-66 and on
SubmitReturns(operation) ==
    /\ pc = "submit1"
    /\ firstOperation' = operation
    /\ Becomes(FirstLoop(operation,
                         trace \o << Returned(INITIAL, operation),
                                     Progress(INITIAL, GeneratingInitial) >>))
    /\ UNCHANGED << envKey, Params, apiKey, extensionOperation >>

SubmitFails(message) ==
    /\ pc = "submit1"
    /\ Becomes(Caught("submit", message, trace))
    /\ UNCHANGED << envKey, Params, apiKey, Operations12 >>

\* the 20 s timer of the first loop fires and the poll is issued: line 65
PollIssued ==
    /\ pc = "wait1"
    /\ Becomes(Suspended("poll1", trace \o << Poll(INITIAL, firstOperation) >>))
    /\ UNCHANGED << envKey, Params, apiKey, Operations12 >>

\* getVideosOperation answers: line 65, then the loop test
PollReturns(operation) ==
    /\ pc = "poll1"
    /\ Count("poll", INITIAL) >= MaxPolls => operation.done
    /\ firstOperation' = operation
    /\ Becomes(FirstLoop(operation, trace \o << Returned(INITIAL, operation) >>))
    /\ UNCHANGED << envKey, Params, apiKey, extensionOperation >>

PollFails(message) ==
    /\ pc = "poll1"
    /\ Becomes(Caught("poll", message, trace))
    /\ UNCHANGED << envKey, Params, apiKey, Operations12 >>

\* the 3 s settle delay is over: lines 71, 74-99
SettleElapsed ==
    /\ pc = "settle"
    /\ Becomes(AfterSettle(firstOperation, trace))
    /\ UNCHANGED << envKey, Params, apiKey, Operations12 >>

\* the second generateVideos call answers: lines 90, 101-113
ExtensionSubmitReturns(operation) ==
    /\ pc = "submit2"
    /\ extensionOperation' = operation
    /\ Becomes(ExtensionLoop(operation,
                             trace \o << Returned(EXTENSION, operation) >>))
    /\ UNCHANGED << envKey, Params, apiKey, firstOperation >>

ExtensionSubmitFails(message) ==
    /\ pc = "submit2"
    /\ Becomes(Caught("submit", message, trace))
    /\ UNCHANGED << envKey, Params, apiKey, Operations12 >>

\* the 20 s timer of the second loop fires and the poll is issued: line 104
ExtensionPollIssued ==
    /\ pc = "wait2"
    /\ Becomes(Suspended("poll2",
                         trace \o << Poll(EXTENSION, extensionOperation) >>))
    /\ UNCHANGED << envKey, Params, apiKey, Operations12 >>

ExtensionPollReturns(operation) ==
    /\ pc = "poll2"
    /\ Count("poll", EXTENSION) >= MaxPolls => operation.done
    /\ extensionOperation' = operation
    /\ Becomes(ExtensionLoop(operation,
                             trace \o << Returned(EXTENSION, operation) >>))
    /\ UNCHANGED << envKey, Params, apiKey, firstOperation >>

ExtensionPollFails(message) ==
    /\ pc = "poll2"
    /\ Becomes(Caught("poll", message, trace))
    /\ UNCHANGED << envKey, Params, apiKey, Operations12 >>

\* fetchAndCreateUrl, lines 19-23: the response arrives
FetchResponds(ok, statusText) ==
    /\ pc = "fetch"
    /\ IF ok
       THEN Becomes(Suspended("blob", trace))
       ELSE Becomes(Uncaught("download", DownloadFailedMessage(statusText), trace))
    /\ UNCHANGED << envKey, Params, apiKey, Operations12 >>

\* fetch() itself rejects
FetchFails(message) ==
    /\ pc = "fetch"
    /\ Becomes(Uncaught("download", message, trace))
    /\ UNCHANGED << envKey, Params, apiKey, Operations12 >>

\* fetchAndCreateUrl, lines 23-24: the body is read and wrapped
BlobRead ==
    /\ pc = "blob"
    /\ pc' = "resolved"
    /\ result' = ObjectUrl(trace[Len(trace)].a)
    /\ UNCHANGED << envKey, Params, apiKey, Operations12, trace, thrown, classified >>

BlobFails(message) ==
    /\ pc = "blob"
    /\ Becomes(Uncaught("download", message, trace))
    /\ UNCHANGED << envKey, Params, apiKey, Operations12 >>

\* the environment's credential changes (a key is selected or withdrawn)
KeyChanges(key) ==
    /\ key # envKey
    /\ envKey' = key
    /\ UNCHANGED << pc, Params, apiKey, Operations12, trace, thrown,
                    classified, result >>

\* generateVideoFromImage under any caller: the App component stands still
Next ==
    \/ (\E p \in Prompts, image \in Images, ratio \in AspectRatios,
           d \in Durations : Call(p, image, ratio, d))
       /\ UNCHANGED appVars
    \/ (\E operation \in Operations : SubmitReturns(operation))
       /\ UNCHANGED appVars
    \/ (\E message \in RawMessages : SubmitFails(message))
       /\ UNCHANGED appVars
    \/ PollIssued /\ UNCHANGED appVars
    \/ (\E operation \in Operations : PollReturns(operation))
       /\ UNCHANGED appVars
    \/ (\E message \in RawMessages : PollFails(message))
       /\ UNCHANGED appVars
    \/ SettleElapsed /\ UNCHANGED appVars
    \/ (\E operation \in Operations : ExtensionSubmitReturns(operation))
       /\ UNCHANGED appVars
    \/ (\E message \in RawMessages : ExtensionSubmitFails(message))
       /\ UNCHANGED appVars
    \/ ExtensionPollIssued /\ UNCHANGED appVars
    \/ (\E operation \in Operations : ExtensionPollReturns(operation))
       /\ UNCHANGED appVars
    \/ (\E message \in RawMessages : ExtensionPollFails(message))
       /\ UNCHANGED appVars
    \/ (\E ok \in BOOLEAN, statusText \in StatusTexts : FetchResponds(ok, statusText))
       /\ UNCHANGED appVars
    \/ (\E message \in NetworkMessages : FetchFails(message))
       /\ UNCHANGED appVars
    \/ BlobRead /\ UNCHANGED appVars
    \/ (\E message \in NetworkMessages : BlobFails(message))
       /\ UNCHANGED appVars
    \/ (\E key \in EnvKeys : KeyChanges(key))
       /\ UNCHANGED appVars

Spec == Init /\ [][Next]_vars

----------------------------------------------------------------------------
(* The pipeline with a service and a transport that answer *)

\* a step of a pending run: a timer fires or an awaited call settles
RunStep ==
    \/ (\E operation \in Operations : SubmitReturns(operation))
       /\ UNCHANGED appVars
    \/ (\E message \in NetworkMessages : SubmitFails(message))
       /\ UNCHANGED appVars
    \/ PollIssued /\ UNCHANGED appVars
    \/ (\E operation \in Operations : PollReturns(operation))
       /\ UNCHANGED appVars
    \/ (\E message \in NetworkMessages : PollFails(message))
       /\ UNCHANGED appVars
    \/ SettleElapsed /\ UNCHANGED appVars
    \/ (\E operation \in Operations : ExtensionSubmitReturns(operation))
       /\ UNCHANGED appVars
    \/ (\E message \in NetworkMessages : ExtensionSubmitFails(message))
       /\ UNCHANGED appVars
    \/ ExtensionPollIssued /\ UNCHANGED appVars
    \/ (\E operation \in Operations : ExtensionPollReturns(operation))
       /\ UNCHANGED appVars
    \/ (\E message \in NetworkMessages : ExtensionPollFails(message))
       /\ UNCHANGED appVars
    \/ (\E ok \in BOOLEAN, statusText \in StatusTexts : FetchResponds(ok, statusText))
       /\ UNCHANGED appVars
    \/ (\E message \in NetworkMessages : FetchFails(message))
       /\ UNCHANGED appVars
    \/ BlobRead /\ UNCHANGED appVars
    \/ (\E message \in NetworkMessages : BlobFails(message))
       /\ UNCHANGED appVars

LiveNext ==
    \/ (\E p \in Prompts, image \in Images, ratio \in AspectRatios,
           d \in Durations : Call(p, image, ratio, d))
       /\ UNCHANGED appVars
    \/ RunStep
    \/ (\E key \in EnvKeys : KeyChanges(key))
       /\ UNCHANGED appVars

\* every timer fires and every awaited call settles; the service reports an
\* operation done after at most MaxPolls polls (the guards of PollReturns
\* and ExtensionPollReturns)
LiveSpec == Init /\ [][LiveNext]_vars /\ WF_vars(RunStep)

----------------------------------------------------------------------------
(* The App component driving the pipeline: src/App.tsx *)

runVars == << pc, Params, apiKey, Operations12, trace, thrown, classified,
              result >>
controls == << uiPrompt, mediaFile, mediaType, uiAspectRatio, uiDuration >>

\* a settled promise resumes its awaiter before any other event is handled
Quiet == ~(handler = "pipeline" /\ Settled)

\* the main screen is rendered only with a key selected: lines 178-200
MainScreen == apiKeySelected /\ Quiet
KeyScreen == ~apiKeySelected /\ Quiet

\* an edit of the controls, counted while an invocation is in flight
Edited ==
    IF handler = "idle"
    THEN UNCHANGED edits
    ELSE edits < MaxEdits /\ edits' = edits + 1

\* onProgress: setLoadingMessage (line 155) shows the newest progress message
Shown(tr, before, now) ==
    LET fresh == IF Len(before) <= Len(tr) /\ before = SubSeq(tr, 1, Len(before))
                 THEN SubSeq(tr, Len(before) + 1, Len(tr))
                 ELSE tr
        messages == SelectSeq(fresh, LAMBDA e : e.kind = "progress")
    IN  IF messages = << >> THEN now ELSE messages[Len(messages)].a

\* a step of the run while the App awaits it
Awaited ==
    /\ handler = "pipeline"
    /\ loadingMessage' = Shown(trace', trace, loadingMessage)
    /\ UNCHANGED << apiKeySelected, controls, isLoading, generatedVideoUrl,
                    error, keyCheck, handler, closure, invocations, edits >>

\* checkApiKey of the mount effect answers: lines 87-99
CheckApiKey(hasKey) ==
    /\ keyCheck = "pending" /\ Quiet
    /\ keyCheck' = "done"
    /\ apiKeySelected' = hasKey
    /\ UNCHANGED << envKey, runVars, controls, isLoading, loadingMessage,
                    generatedVideoUrl, error, handler, closure, invocations,
                    edits >>

\* handleSelectKey once openSelectKey has answered: lines 170-176.  The
\* dialog leaves process.env.API_KEY as the user's choice made it; the key
\* counts as selected whatever that is.
HandleSelectKey(key) ==
    /\ KeyScreen
    /\ envKey' = key
    /\ apiKeySelected' = TRUE
    /\ error' = NoMessage
    /\ UNCHANGED << runVars, controls, isLoading, loadingMessage,
                    generatedVideoUrl, keyCheck, handler, closure, invocations,
                    edits >>

\* onChange of the prompt box: line 220
SetPrompt(p) ==
    /\ MainScreen /\ p # uiPrompt
    /\ Edited
    /\ uiPrompt' = p
    /\ UNCHANGED << envKey, runVars, apiKeySelected, mediaFile, mediaType,
                    uiAspectRatio, uiDuration, isLoading, loadingMessage,
                    generatedVideoUrl, error, keyCheck, handler, closure,
                    invocations >>

\* handleFileChange: lines 101-120
HandleFileChange(file) ==
    /\ MainScreen
    /\ Edited
    /\ generatedVideoUrl' = NoUrl
    /\ mediaFile' = file
    /\ mediaType' = MediaTypeOf(file)
    /\ error' = IF MediaTypeOf(file) = NoMediaType
                THEN UnsupportedFileMessage ELSE NoMessage
    /\ UNCHANGED << envKey, runVars, apiKeySelected, uiPrompt, uiAspectRatio,
                    uiDuration, isLoading, loadingMessage, keyCheck, handler,
                    closure, invocations >>

\* the aspect ratio buttons: lines 248 and 256
SetAspectRatio(ratio) ==
    /\ MainScreen /\ ratio # uiAspectRatio
    /\ Edited
    /\ uiAspectRatio' = ratio
    /\ UNCHANGED << envKey, runVars, apiKeySelected, uiPrompt, mediaFile,
                    mediaType, uiDuration, isLoading, loadingMessage,
                    generatedVideoUrl, error, keyCheck, handler, closure,
                    invocations >>

\* the duration buttons: lines 270 and 278
SetDuration(d) ==
    /\ MainScreen /\ d # uiDuration
    /\ Edited
    /\ uiDuration' = d
    /\ UNCHANGED << envKey, runVars, apiKeySelected, uiPrompt, mediaFile,
                    mediaType, uiAspectRatio, isLoading, loadingMessage,
                    generatedVideoUrl, error, keyCheck, handler, closure,
                    invocations >>

\* the Generate button is clicked: handleGenerateClick up to its first
\* await, lines 122-147; with no media type it throws and ends at once
HandleGenerateClick ==
    /\ MainScreen
    /\ ~GenerateDisabled(isLoading, uiPrompt, mediaFile)
    /\ IF InputsMissing(uiPrompt, mediaFile)
       THEN /\ error' = ProvideInputsMessage
            /\ UNCHANGED << apiKeySelected, isLoading, loadingMessage,
                            generatedVideoUrl, handler, closure, invocations >>
       ELSE /\ generatedVideoUrl' = NoUrl
            /\ IF mediaType = NoMediaType
               THEN LET caught == CatchOutcome(ErrorOf(InvalidMediaTypeMessage),
                                               NoMessage, apiKeySelected)
                    IN  /\ error' = caught.error
                        /\ apiKeySelected' = caught.apiKeySelected
                        /\ isLoading' = FALSE
                        /\ loadingMessage' = ""
                        /\ UNCHANGED << handler, closure, invocations >>
               ELSE /\ error' = NoMessage
                    /\ isLoading' = TRUE
                    /\ loadingMessage' = IF mediaType = "video"
                                         THEN ExtractingFrame ELSE ""
                    /\ handler' = "input"
                    /\ closure' = RenderClosure
                    /\ invocations' = invocations + 1
                    /\ UNCHANGED apiKeySelected
    /\ edits' = 0
    /\ UNCHANGED << envKey, runVars, controls, keyCheck >>

\* the call made with the controls as they are when the input is ready,
\* not as the invocation closed over them
GenerateFromControls(bytes, mime) ==
    /\ Call(uiPrompt, << bytes, mime >>, uiAspectRatio, uiDuration)
    /\ handler' = "pipeline"
    /\ loadingMessage' = Shown(trace', << >>, loadingMessage)
    /\ UNCHANGED << apiKeySelected, controls, isLoading, generatedVideoUrl,
                    error, keyCheck, closure, invocations, edits >>

\* the awaited input is ready and generateVideoFromImage is called with
\* what the invocation closed over: lines 149-156
Generate(bytes, mime) ==
    /\ Call(closure.prompt, << bytes, mime >>, closure.aspectRatio,
            closure.duration)
    /\ handler' = "pipeline"
    /\ loadingMessage' = Shown(trace', << >>, loadingMessage)
    /\ UNCHANGED << apiKeySelected, controls, isLoading, generatedVideoUrl,
                    error, keyCheck, closure, invocations, edits >>

\* the end of handleGenerateClick after a rejection: catch and finally,
\* lines 158-167
Fails(e) ==
    LET caught == CatchOutcome(e, error, apiKeySelected)
    IN  /\ error' = caught.error
        /\ apiKeySelected' = caught.apiKeySelected
        /\ isLoading' = FALSE
        /\ handler' = "idle"
        /\ closure' = NoClosure
        /\ invocations' = invocations - 1
        /\ edits' = 0
        /\ UNCHANGED << controls, loadingMessage, generatedVideoUrl, keyCheck >>

\* fileToBase64 resolves: lines 11-19, 143-144
FileRead(bytes) ==
    /\ handler = "input" /\ closure.mediaType = "image"
    /\ Generate(bytes, closure.mediaFile.type)

\* FileReader.onerror: line 20
FileReadFails ==
    /\ handler = "input" /\ closure.mediaType = "image"
    /\ Fails(ProgressEventError)
    /\ UNCHANGED << envKey, runVars >>

\* extractFrameFromVideo resolves with a JPEG frame: lines 25-56, 139-141
FrameExtracted(bytes) ==
    /\ handler = "input" /\ closure.mediaType = "video"
    /\ Generate(bytes, JpegType)

\* extractFrameFromVideo rejects: lines 44-47 and 58-61
FrameExtractionFails(message) ==
    /\ handler = "input" /\ closure.mediaType = "video"
    /\ Fails(ErrorOf(message))
    /\ UNCHANGED << envKey, runVars >>

\* the frame of a finished run of generateVideoFromImage is gone
RunForgotten ==
    /\ pc' = "idle"
    /\ prompt' = "" /\ imageBase64' = "" /\ imageMimeType' = ""
    /\ aspectRatio' = "16:9" /\ duration' = "short"
    /\ apiKey' = NoKey
    /\ firstOperation' = PendingOperation
    /\ extensionOperation' = PendingOperation
    /\ trace' = << >>
    /\ thrown' = NoError
    /\ classified' = 0
    /\ result' = << >>

\* generateVideoFromImage resolved: lines 157 and 165-167
GenerateResolved ==
    /\ handler = "pipeline" /\ pc = "resolved"
    /\ generatedVideoUrl' = result
    /\ isLoading' = FALSE
    /\ handler' = "idle"
    /\ closure' = NoClosure
    /\ invocations' = invocations - 1
    /\ edits' = 0
    /\ RunForgotten
    /\ UNCHANGED << envKey, apiKeySelected, controls, loadingMessage, error,
                    keyCheck >>

\* generateVideoFromImage rejected: lines 158-167
GenerateRejected ==
    /\ handler = "pipeline" /\ pc = "rejected"
    /\ Fails(ErrorOf(result))
    /\ RunForgotten
    /\ UNCHANGED envKey

\* what the service, the transport and the platform answer to the App
AppOperations ==
    { PendingOperation, [ done |-> TRUE, video |-> NoVideo ],
      [ done |-> TRUE,
        video |-> [ present |-> TRUE, uri |-> "https://dl/v1?alt=media" ] ] }
AppMessages ==
    { << >>, RESOURCE_EXHAUSTED, EntityNotFound, << "API", "key", "expired" >>,
      << "Failed", "to", "fetch" >> }
AppStatusTexts == { << >>, << "Forbidden" >> }
AppKeys == { NoKey, "key1" }

AppNext ==
    \/ \E hasKey \in BOOLEAN : CheckApiKey(hasKey)
    \/ \E key \in AppKeys : HandleSelectKey(key)
    \/ \E p \in TypedPrompts : SetPrompt(p)
    \/ \E file \in Files : HandleFileChange(file)
    \/ \E ratio \in AspectRatios : SetAspectRatio(ratio)
    \/ \E d \in Durations : SetDuration(d)
    \/ HandleGenerateClick
    \/ \E bytes \in FileBytes : FileRead(bytes)
    \/ FileReadFails
    \/ \E bytes \in FrameBytes : FrameExtracted(bytes)
    \/ \E message \in { CanvasContextMessage, VideoLoadFailedMessage } :
          FrameExtractionFails(message)
    \/ GenerateResolved
    \/ GenerateRejected
    \/ (\E operation \in AppOperations : SubmitReturns(operation)) /\ Awaited
    \/ (\E message \in AppMessages : SubmitFails(message)) /\ Awaited
    \/ PollIssued /\ Awaited
    \/ (\E operation \in AppOperations : PollReturns(operation)) /\ Awaited
    \/ (\E message \in AppMessages : PollFails(message)) /\ Awaited
    \/ SettleElapsed /\ Awaited
    \/ (\E operation \in AppOperations : ExtensionSubmitReturns(operation))
       /\ Awaited
    \/ (\E message \in AppMessages : ExtensionSubmitFails(message)) /\ Awaited
    \/ ExtensionPollIssued /\ Awaited
    \/ (\E operation \in AppOperations : ExtensionPollReturns(operation))
       /\ Awaited
    \/ (\E message \in AppMessages : ExtensionPollFails(message)) /\ Awaited
    \/ (\E ok \in BOOLEAN, statusText \in AppStatusTexts :
           FetchResponds(ok, statusText)) /\ Awaited
    \/ (\E message \in AppMessages : FetchFails(message)) /\ Awaited
    \/ BlobRead /\ Awaited
    \/ (\E message \in AppMessages : BlobFails(message)) /\ Awaited

\* the page has just been mounted
AppInit == Init /\ envKey \in AppKeys

AppSpec == AppInit /\ [][AppNext]_vars

----------------------------------------------------------------------------
(* Reading the trace of the current run *)

Of(kind) == SelectSeq(trace, LAMBDA e : e.kind = kind)
OfStage(kind, stage) ==
    SelectSeq(trace, LAMBDA e : e.kind = kind /\ e.stage = stage)

Submits == Of("submit")
Fetches == Of("fetch")
ProgressEvents == Of("progress")

Last(seq) == seq[Len(seq)]

\* the 20 s waits of a stage
PollWaits(stage) ==
    SelectSeq(trace, LAMBDA e : /\ e.kind = "timeout"
                                /\ e.stage = stage
                                /\ e.a = PollIntervalMs)
SettleWaits ==
    SelectSeq(trace, LAMBDA e : e.kind = "timeout" /\ e.a = SettleDelayMs)

\* position in the trace of the n-th event of a kind and stage (0: none)
IndexOf(kind, stage, n) ==
    LET hits == { i \in DOMAIN trace :
                    /\ trace[i].kind = kind
                    /\ trace[i].stage = stage
                    /\ Cardinality({ j \in 1 .. i : /\ trace[j].kind = kind
                                                     /\ trace[j].stage = stage }) = n }
    IN  IF hits = { } THEN 0 ELSE CHOOSE i \in hits : TRUE

Running == pc \notin { "idle", "resolved", "rejected" }

----------------------------------------------------------------------------
(* C1 *)

\* C1: a run with duration = short never issues an extension submit and
\* never more than one submit; when it has returned successfully it has
\* issued exactly one submit (the INITIAL one, with the request image) and
\* exactly one download, of the uri of the last snapshot of that operation.
C1_ShortRunOneSubmit ==
    (pc # "idle" /\ duration = "short") =>
        /\ Len(Submits) <= 1
        /\ Len(OfStage("submit", EXTENSION)) = 0
        /\ pc = "resolved" =>
              /\ Len(Submits) = 1
              /\ Submits[1].stage = INITIAL
              /\ Submits[1].a = InitialRequest(prompt, imageBase64,
                                               imageMimeType, aspectRatio)
              /\ Len(Fetches) = 1
              /\ Len(OfStage("returned", INITIAL)) >= 1
              /\ LET operation == Last(OfStage("returned", INITIAL)).a
                 IN  /\ operation.done
                     /\ operation.video.present
                     /\ operation.video.uri # NoUri
                     /\ Fetches[1].a.link = operation.video.uri
                     /\ result = << "blob:", operation.video.uri >>

\* a short run that polled at least once has returned successfully
C1_Witness ==
    /\ pc = "resolved"
    /\ duration = "short"
    /\ Count("poll", INITIAL) >= 1

----------------------------------------------------------------------------
(* C2 *)

\* C2: a run with duration = long that has returned successfully has issued
\* exactly two submits, INITIAL then EXTENSION; each stage was polled to
\* completion (its last snapshot is done); the EXTENSION submit was issued
\* after that done INITIAL snapshot was received, carries its video object
\* and no image; and the single download is of the uri of the last
\* EXTENSION snapshot.
C2_LongRunTwoSubmits ==
    (pc = "resolved" /\ duration = "long") =>
        /\ Len(Submits) = 2
        /\ Submits[1].stage = INITIAL
        /\ Submits[1].a = InitialRequest(prompt, imageBase64, imageMimeType,
                                         aspectRatio)
        /\ Submits[2].stage = EXTENSION
        /\ Len(OfStage("returned", INITIAL)) >= 1
        /\ Len(OfStage("returned", EXTENSION)) >= 1
        /\ LET first == Last(OfStage("returned", INITIAL)).a
               extension == Last(OfStage("returned", EXTENSION)).a
               firstDoneAt ==
                   IndexOf("returned", INITIAL,
                           Len(OfStage("returned", INITIAL)))
           IN  /\ first.done
               /\ first.video.present
               /\ Submits[2].a.video = first.video
               /\ Submits[2].a.image = NoImage
               /\ Submits[2].a.image.imageBytes # imageBase64
               /\ Submits[2].a.prompt = prompt
               /\ firstDoneAt < IndexOf("submit", EXTENSION, 1)
               /\ extension.done
               /\ extension.video.present
               /\ Len(Fetches) = 1
               /\ Fetches[1].stage = EXTENSION
               /\ Fetches[1].a.link = extension.video.uri
               /\ result = << "blob:", extension.video.uri >>

\* a long run has returned successfully with two different artifacts in
\* its two stages, after polling in both
C2_Witness ==
    /\ pc = "resolved"
    /\ duration = "long"
    /\ Count("poll", INITIAL) >= 1
    /\ Count("poll", EXTENSION) >= 1
    /\ firstOperation.video.uri # extensionOperation.video.uri

----------------------------------------------------------------------------
(* C3 *)

\* the snapshot a stage's submit call answered with
SubmitAnswer(stage) == OfStage("returned", stage)[1].a

\* C3: the code that follows a polling loop (settle delay, validation,
\* extension submit, download) runs only with a done snapshot of that
\* stage's operation; and a stage whose submit answered with a done
\* operation has no poll call and no 20-second wait.
C3_PollingUntilDone ==
    /\ pc \in { "settle", "submit2", "wait2", "poll2" } => firstOperation.done
    /\ pc \in { "fetch", "blob", "resolved" } =>
          /\ firstOperation.done
          /\ duration = "long" => extensionOperation.done
    /\ thrown.step = "result" =>
          /\ firstOperation.done
          /\ thrown.message = NoExtendedLinkMessage => extensionOperation.done
    /\ \A stage \in { INITIAL, EXTENSION } :
          (Len(OfStage("returned", stage)) >= 1 /\ SubmitAnswer(stage).done) =>
              /\ Len(OfStage("poll", stage)) = 0
              /\ Len(PollWaits(stage)) = 0

\* a long run whose two submits both answered with a done operation has
\* reached the download without a poll or a 20-second wait
C3_Witness ==
    /\ pc = "fetch"
    /\ duration = "long"
    /\ Len(OfStage("returned", INITIAL)) = 1
    /\ Len(OfStage("returned", EXTENSION)) = 1
    /\ SubmitAnswer(INITIAL).done
    /\ SubmitAnswer(EXTENSION).done
    /\ Len(Of("poll")) = 0

----------------------------------------------------------------------------
(* C4 *)

\* C4: a run that read an absent credential is rejected at once with the
\* missing-credential error, and its trace is empty: no submit, poll,
\* download or progress event.
C4_MissingCredential ==
    (pc # "idle" /\ apiKey = NoKey) =>
        /\ pc = "rejected"
        /\ result = MissingKeyMessage
        /\ thrown.step = "credential"
        /\ trace = << >>

\* a run has been rejected for its missing credential
C4_Witness ==
    /\ pc = "rejected"
    /\ apiKey = NoKey
    /\ thrown.step = "credential"

----------------------------------------------------------------------------
(* C5 *)

HasRateLimitMarker(message) ==
    Includes(message, RESOURCE_EXHAUSTED) \/ Includes(message, Code429)

\* C5: when a submit or poll call has raised an error whose message
\* contains "RESOURCE_EXHAUSTED" or "429", whatever else it contains (the
\* entity-not-found marker included), the run is rejected with the canned
\* rate-limit message.
C5_RateLimited ==
    (thrown.step \in { "submit", "poll" } /\ HasRateLimitMarker(thrown.message)) =>
        /\ pc = "rejected"
        /\ result = RateLimitMessage

\* a poll has failed with a message that holds the entity-not-found marker
\* and then "429", and the run was rejected as rate limited
C5_Witness ==
    /\ pc = "rejected"
    /\ thrown.step = "poll"
    /\ thrown.message = EntityNotFound \o Code429
    /\ result = RateLimitMessage

----------------------------------------------------------------------------
(* C6 *)

\* C6 as stated: every error that reaches the catch block with a message
\* containing "Requested entity was not found" is rethrown with the canned
\* invalid-credential message.
C6_EntityNotFoundAlwaysInvalid ==
    (classified = 1 /\ Includes(thrown.message, EntityNotFound)) =>
        result = InvalidKeyMessage

\* C6 amended: every error that reaches the catch block with a message
\* containing "Requested entity was not found" and neither
\* "RESOURCE_EXHAUSTED" nor "429" is rethrown with the canned
\* invalid-credential message.
C6_EntityNotFoundInvalid ==
    (/\ classified = 1
     /\ Includes(thrown.message, EntityNotFound)
     /\ ~HasRateLimitMarker(thrown.message)) =>
        /\ pc = "rejected"
        /\ result = InvalidKeyMessage

\* a submit has failed with the entity-not-found marker inside a longer
\* message without a rate-limit marker, and the run was rejected with the
\* invalid-credential message
C6_Witness ==
    /\ pc = "rejected"
    /\ thrown.step = "submit"
    /\ thrown.message = << "quota" >> \o EntityNotFound
    /\ result = InvalidKeyMessage

----------------------------------------------------------------------------
(* C7 *)

\* the INITIAL operation is done and lacks what the run takes from it: the
\* uri in a short run, the video object in a long run
InitialResultMissing ==
    /\ Len(OfStage("returned", INITIAL)) >= 1
    /\ LET operation == Last(OfStage("returned", INITIAL)).a
       IN  /\ operation.done
           /\ IF duration = "short"
              THEN ~operation.video.present \/ operation.video.uri = NoUri
              ELSE ~operation.video.present

\* the EXTENSION operation is done and has no uri
ExtensionResultMissing ==
    /\ Len(OfStage("returned", EXTENSION)) >= 1
    /\ LET operation == Last(OfStage("returned", EXTENSION)).a
       IN  /\ operation.done
           /\ ~operation.video.present \/ operation.video.uri = NoUri

\* C7: once a stage's operation is done without its result reference, the
\* run issues no download; it is rejected with that stage's missing-result
\* message as soon as the result is looked at, which is at once except in
\* the INITIAL stage of a long run, where the settle delay comes first.
C7_MissingResult ==
    /\ InitialResultMissing =>
          /\ Len(Fetches) = 0
          /\ Len(OfStage("submit", EXTENSION)) = 0
          /\ IF duration = "short"
             THEN pc = "rejected" /\ result = NoDownloadLinkMessage
             ELSE \/ pc = "settle"
                  \/ pc = "rejected" /\ result = NoInitialVideoMessage
          /\ pc = "rejected" => thrown.step = "result"
    /\ ExtensionResultMissing =>
          /\ Len(Fetches) = 0
          /\ pc = "rejected"
          /\ thrown.step = "result"
          /\ result = NoExtendedLinkMessage

\* a long run was rejected for the missing video of its INITIAL operation
C7_Witness ==
    /\ InitialResultMissing
    /\ duration = "long"
    /\ pc = "rejected"
    /\ result = NoInitialVideoMessage

----------------------------------------------------------------------------
(* C8 *)

\* the milestone a progress message stands for
Milestone(message) ==
    CASE message = WarmingUp -> 1
      [] message = GeneratingInitial -> 2
      [] message = FinalizingInitial -> 3
      [] message = ExtendingVideo -> 4
      [] message \in { DownloadingVideo, DownloadingExtended } -> 5

\* C8: the progress events of a run start with "warming up" and each later
\* one is the next milestone of the run: "generating" after "warming up",
\* "finalizing" after "generating" and "extending" after "finalizing" in a
\* long run only, "downloading" after "generating" in a short run and
\* after "extending" in a long run; so the milestones strictly increase
\* and none is emitted twice.
C8_ProgressOrdered ==
    LET n == Len(ProgressEvents)
        rank(i) == Milestone(ProgressEvents[i].a)
    IN  /\ \A i, j \in 1 .. n : i < j => rank(i) < rank(j)
        /\ n >= 1 => rank(1) = 1
        /\ \A i \in 2 .. n :
              /\ rank(i) = 2 => rank(i - 1) = 1
              /\ rank(i) = 3 => duration = "long" /\ rank(i - 1) = 2
              /\ rank(i) = 4 => duration = "long" /\ rank(i - 1) = 3
              /\ rank(i) = 5 =>
                    rank(i - 1) = IF duration = "long" THEN 4 ELSE 2

\* a long run that polled twice in its first stage has emitted all five
\* milestones
C8_Witness ==
    /\ duration = "long"
    /\ Len(ProgressEvents) = 5
    /\ Count("poll", INITIAL) >= 2
    /\ Count("poll", EXTENSION) >= 1

----------------------------------------------------------------------------
(* C9 *)

\* C9: the failure of a pipeline step reaches the caller only after one
\* pass through the catch block, as the message the catch block makes of
\* the raw error.  (The missing-credential error is raised before the try
\* block; it is held here only to the message, which the catch block would
\* leave as it is.)
C9_EveryFailureClassified ==
    pc = "rejected" =>
        /\ thrown.step # "credential" => classified = 1
        /\ result = Classify(thrown.message)

----------------------------------------------------------------------------
(* C10 *)

\* C10: while a run is pending its credential does not change, whatever
\* happens to the environment's; every download request of the run carries
\* that credential; and a run that starts reads the environment's
\* credential as it is at that moment.
C10_CredentialReadOnce ==
    [][ /\ Running => apiKey' = apiKey
        /\ (~Running /\ envKey' = envKey) => apiKey' = envKey
        /\ \A i \in DOMAIN trace' :
              trace'[i].kind = "fetch" => trace'[i].a.key = apiKey'
      ]_vars

\* a run has downloaded its artifact with the credential read at its start
\* although the environment's credential was replaced in the meantime
C10_Witness ==
    /\ pc = "resolved"
    /\ Len(Fetches) = 1
    /\ Fetches[1].a.key = apiKey
    /\ envKey \in Keys
    /\ envKey # apiKey

----------------------------------------------------------------------------
(* C11 *)

\* C11: from the interface at most one invocation of handleGenerateClick,
\* and so at most one run of generateVideoFromImage, is in flight: an
\* invocation is pending exactly while isLoading is true, a run is pending
\* only inside that invocation, and whenever the Generate button can be
\* clicked nothing is in flight.
C11_OneRunInFlight ==
    /\ invocations <= 1
    /\ isLoading <=> invocations = 1
    /\ Running => handler = "pipeline" /\ isLoading
    /\ (MainScreen /\ ~GenerateDisabled(isLoading, uiPrompt, mediaFile)) =>
           handler = "idle" /\ pc = "idle"

\* a run is pending while the main screen shows a prompt and a file: only
\* isLoading keeps the button disabled
C11_Witness ==
    /\ Running
    /\ MainScreen
    /\ ~InputsMissing(uiPrompt, mediaFile)
    /\ GenerateDisabled(isLoading, uiPrompt, mediaFile)

----------------------------------------------------------------------------
(* C12 *)

\* C12: every attempt that ends in failure leaves the caller ready for a
\* fresh attempt: isLoading is false again, an error message is set, no
\* video URL is set, and nothing is left in flight that would keep the
\* Generate button from starting a new run.  An attempt fails while the
\* input is processed, at once for want of a media type, or with the
\* rejection of generateVideoFromImage (credential, classified pipeline
\* failure or download).  (The code does not keep this: see the failed
\* file read.)
C12_FailureLeavesCallerReady ==
    [][ ( \/ FileReadFails
          \/ \E message \in { CanvasContextMessage, VideoLoadFailedMessage } :
                FrameExtractionFails(message)
          \/ HandleGenerateClick /\ mediaType = NoMediaType
          \/ GenerateRejected ) =>
            /\ isLoading' = FALSE
            /\ error' # NoMessage
            /\ generatedVideoUrl' = NoUrl
            /\ handler' = "idle" /\ pc' = "idle" /\ invocations' = 0
      ]_vars

----------------------------------------------------------------------------
(* C13 *)

\* C13: when handleGenerateClick resumes from a run that failed with a
\* missing or an invalid credential it sets apiKeySelected to false (and
\* shows the API key error); from a rate-limited run or one with a missing
\* result it leaves apiKeySelected as it is and shows the run's message.
\* While apiKeySelected is false no invocation of handleGenerateClick
\* starts.  (The kind of a failure is read off the rejected run.)
C13_CredentialFailureDeselectsKey ==
    [][ LET missingCredential == thrown.step = "credential"
            invalidCredential == classified = 1 /\ result = InvalidKeyMessage
            rateLimited == classified = 1 /\ result = RateLimitMessage
            missingResult == thrown.step = "result"
        IN  /\ (GenerateRejected /\ (missingCredential \/ invalidCredential))
                  => apiKeySelected' = FALSE /\ error' = ApiKeyErrorMessage
            /\ (GenerateRejected /\ (rateLimited \/ missingResult))
                  => apiKeySelected' = apiKeySelected /\ error' = result
            /\ ~apiKeySelected => invocations' <= invocations
      ]_vars

\* a run found no credential in the environment and the App is back on the
\* key screen
C13_Witness ==
    /\ envKey = NoKey
    /\ handler = "idle" /\ pc = "idle"
    /\ error = ApiKeyErrorMessage
    /\ ~apiKeySelected
    /\ KeyScreen

----------------------------------------------------------------------------
(* C14 *)

InLoop(stage) ==
    IF stage = INITIAL THEN pc \in { "wait1", "poll1" }
    ELSE pc \in { "wait2", "poll2" }
LoopOperation(stage) ==
    IF stage = INITIAL THEN firstOperation ELSE extensionOperation

\* C14: the polling loop of either stage ends only when a poll reports the
\* operation done or a poll call fails (not retried, classified once);
\* after a poll that reports "not done" the loop always waits again,
\* however many polls there have been; and with timers that fire, calls
\* that settle and a service that eventually reports each operation done,
\* every pending run eventually resolves or rejects.
C14_PollingEndsOnlyWhenDone ==
    /\ [][ \A stage \in { INITIAL, EXTENSION } :
              /\ (InLoop(stage) /\ ~InLoop(stage)') =>
                    /\ Last(trace).kind = "poll"
                    /\ \/ /\ LoopOperation(stage)'.done
                          /\ Last(OfStage("returned", stage)').a =
                                 LoopOperation(stage)'
                       \/ /\ pc' = "rejected"
                          /\ thrown'.step = "poll"
                          /\ classified' = 1
                          /\ trace' = trace
              /\ (InLoop(stage) /\ Last(trace).kind = "poll"
                    /\ trace' # trace /\ ~LoopOperation(stage)'.done) =>
                    /\ InLoop(stage)'
                    /\ Last(trace').kind = "timeout"
                    /\ Last(trace').a = PollIntervalMs
         ]_vars
    /\ (Running ~> Settled)

\* a long run resolved after both loops went on to the last poll the
\* service allows itself
C14_Witness ==
    /\ pc = "resolved"
    /\ Count("poll", INITIAL) = MaxPolls
    /\ Count("poll", EXTENSION) = MaxPolls

----------------------------------------------------------------------------
(* C15 *)

\* positions in the trace of the events of a kind and stage
Positions(kind, stage) ==
    { i \in DOMAIN trace : trace[i].kind = kind /\ trace[i].stage = stage }

\* C15: every EXTENSION submit and poll of a run belongs to a long run and
\* comes after an INITIAL snapshot that is done and holds a video, the last
\* INITIAL snapshot of the run, whose video the EXTENSION submit carries;
\* and a long run whose done INITIAL operation holds no video issues no
\* EXTENSION submit and no EXTENSION poll, and is rejected with the message
\* of the missing initial video, classified once.
C15_ExtensionNeedsInitial ==
    /\ \A i \in Positions("submit", EXTENSION) \cup Positions("poll", EXTENSION) :
          /\ duration = "long"
          /\ \E j \in Positions("returned", INITIAL) :
                /\ j < i
                /\ j = IndexOf("returned", INITIAL,
                               Len(OfStage("returned", INITIAL)))
                /\ trace[j].a.done
                /\ ~VideoMissing(trace[j].a.video)
                /\ trace[j].a = firstOperation
                /\ trace[i].kind = "submit" =>
                       trace[i].a.video = trace[j].a.video
    /\ Cardinality(Positions("submit", EXTENSION)) <= 1
    /\ ( /\ duration = "long"
         /\ firstOperation.done
         /\ VideoMissing(PreviousVideoOf(firstOperation)) ) =>
          /\ Positions("submit", EXTENSION) = { }
          /\ Positions("poll", EXTENSION) = { }
          /\ extensionOperation = PendingOperation
          /\ pc \in { "settle", "rejected" }
          /\ pc = "rejected" =>
                /\ result = NoInitialVideoMessage
                /\ classified = 1

\* a long run has polled its EXTENSION operation, which it submitted with
\* the video of an INITIAL operation that took polling to complete
C15_Witness ==
    /\ duration = "long"
    /\ Count("poll", INITIAL) >= 1
    /\ Count("poll", EXTENSION) >= 1
    /\ Len(OfStage("submit", EXTENSION)) = 1
    /\ OfStage("submit", EXTENSION)[1].a.video = firstOperation.video

----------------------------------------------------------------------------
(* C16 *)

\* positions in the trace of the events of a kind with a payload: the
\* progress events with a message, the waits of a length
Carrying(kind, a) ==
    { i \in DOMAIN trace : trace[i].kind = kind /\ trace[i].a = a }

\* C16 as stated: "extending" is emitted only after the INITIAL video has
\* been found present and the EXTENSION job has been submitted, so a long
\* run whose INITIAL operation holds no video never emits it.
C16_ExtendingAfterSubmit ==
    /\ \A i \in Carrying("progress", ExtendingVideo) :
          /\ ~VideoMissing(PreviousVideoOf(firstOperation))
          /\ \E j \in Positions("submit", EXTENSION) : j < i
    /\ (duration = "long" /\ firstOperation.done
          /\ VideoMissing(PreviousVideoOf(firstOperation))) => Carrying("progress", ExtendingVideo) = { }

\* C16 as the code has it: "extending" is emitted at most once, in a long
\* run only, after the INITIAL operation is done and the settle delay has
\* been started, and before the video of the INITIAL operation is looked at
\* and before any EXTENSION submit: it is the event before the EXTENSION
\* submit when there is one, and a long run whose INITIAL operation holds
\* no video has emitted it as its last event when it is rejected.
C16_ExtendingBeforeSubmit ==
    /\ Cardinality(Carrying("progress", ExtendingVideo)) <= 1
    /\ \A i \in Carrying("progress", ExtendingVideo) :
          /\ duration = "long"
          /\ firstOperation.done
          /\ i > 1 /\ trace[i - 1] = Timeout(INITIAL, SettleDelayMs)
          /\ \A j \in Positions("submit", EXTENSION) : j = i + 1
    /\ Positions("submit", EXTENSION) # { } => Carrying("progress", ExtendingVideo) # { }
    /\ (pc = "rejected" /\ duration = "long" /\ firstOperation.done
          /\ VideoMissing(PreviousVideoOf(firstOperation))) =>
          /\ Carrying("progress", ExtendingVideo) = { Len(trace) }
          /\ result = NoInitialVideoMessage

\* a long run was rejected for the missing video of its INITIAL operation
\* with "extending" already announced and nothing submitted for EXTENSION
C16_Witness ==
    /\ pc = "rejected"
    /\ duration = "long"
    /\ Count("poll", INITIAL) >= 1
    /\ firstOperation.done
    /\ VideoMissing(PreviousVideoOf(firstOperation))
    /\ Carrying("progress", ExtendingVideo) # { }
    /\ Positions("submit", EXTENSION) = { }

----------------------------------------------------------------------------
(* C17 *)

\* C17: a short run never waits the settle delay nor emits "finalizing"; a
\* long run does both exactly once as soon as its INITIAL operation is
\* done, and not before: "finalizing" comes after the last, done, INITIAL
\* snapshot with no call and no wait in between, the 3 s wait right after
\* "finalizing", every EXTENSION submit after the wait, and what follows
\* the wait is never a poll or another wait.
C17_SettleDelayOnce ==
    LET Settles == Carrying("timeout", SettleDelayMs)
        Finalizings == Carrying("progress", FinalizingInitial)
    IN
    /\ Cardinality(Settles) <= 1
    /\ Cardinality(Finalizings) <= 1
    /\ pc = "settle" <=> (trace # << >> /\ Len(trace) \in Settles)
    /\ duration = "short" => Settles = { } /\ Finalizings = { }
    /\ (duration = "long" /\ ~firstOperation.done) =>
          Settles = { } /\ Finalizings = { }
    /\ (duration = "long" /\ firstOperation.done) =>
          \E s \in Settles :
             /\ s >= 3
             /\ Finalizings = { s - 1 }
             /\ LET done == IndexOf("returned", INITIAL,
                                    Len(OfStage("returned", INITIAL)))
                IN  /\ 0 < done /\ done < s - 1
                    /\ trace[done] = Returned(INITIAL, firstOperation)
                    /\ \A k \in done + 1 .. s - 2 :
                          trace[k] = Progress(INITIAL, GeneratingInitial)
             /\ \A j \in Positions("submit", EXTENSION) : s < j
             /\ s < Len(trace) => trace[s + 1].kind \notin { "poll", "timeout" }

\* a long run that polled its INITIAL operation has waited the settle
\* delay once and now awaits the answer to its EXTENSION submit
C17_Witness ==
    /\ pc = "submit2"
    /\ duration = "long"
    /\ Count("poll", INITIAL) >= 1
    /\ Len(SettleWaits) = 1
    /\ Cardinality(Carrying("progress", FinalizingInitial)) = 1

----------------------------------------------------------------------------
(* C18 *)

\* the message holds one of the three markers the catch block looks for
HasMarker(message) ==
    \/ Includes(message, RESOURCE_EXHAUSTED)
    \/ Includes(message, Code429)
    \/ Includes(message, EntityNotFound)

\* C18: an error that reaches the catch block with a message that holds
\* none of the markers "RESOURCE_EXHAUSTED", "429" and "Requested entity
\* was not found" is rethrown with that very message, and with the generic
\* fallback message when its message is empty or absent.
C18_UnknownPassedThrough ==
    (classified = 1 /\ ~HasMarker(thrown.message)) =>
        /\ pc = "rejected"
        /\ thrown.message # << >> => result = thrown.message
        /\ thrown.message = << >> => result = FallbackMessage
        /\ result \notin { RateLimitMessage, InvalidKeyMessage }

\* a poll failed with a message that differs from the entity-not-found
\* marker in case only, followed by half of "429": the run was rejected
\* with that message as it is
C18_Witness ==
    /\ pc = "rejected"
    /\ classified = 1
    /\ thrown.step = "poll"
    /\ thrown.message =
           << "requested", "entity", "was", "not", "found", "4", "2" >>
    /\ result = thrown.message

----------------------------------------------------------------------------
(* C19 *)

\* the locator of the run's final stage
FinalLink ==
    IF duration = "short" THEN DownloadLinkOf(firstOperation)
    ELSE DownloadLinkOf(extensionOperation)

\* C19: a run issues at most one download request; a successful run has
\* issued exactly one, of the final stage's locator with the run's
\* credential, as the last thing it did, and so has a run the download
\* rejected;
\* when the response is not ok the run is rejected at once, without
\* another request, with "Failed to download video:" followed by the
\* status text as it is, whatever the status text contains.
C19_SingleDownload ==
    /\ []( /\ Len(Fetches) <= 1
           /\ pc = "resolved" =>
                 /\ Len(Fetches) = 1
                 /\ Last(trace) = Fetches[1]
                 /\ Fetches[1].a.link = FinalLink
                 /\ Fetches[1].a.link # NoUri
                 /\ Fetches[1].a.key = apiKey
                 /\ result = << "blob:", FinalLink >>
           /\ (pc = "rejected" /\ thrown.step = "download") =>
                 /\ Len(Fetches) = 1
                 /\ Last(trace) = Fetches[1] )
    /\ [][ \A statusText \in StatusTexts :
              FetchResponds(FALSE, statusText) =>
                  /\ pc' = "rejected"
                  /\ result' = DownloadFailedPrefix \o statusText
                  /\ trace' = trace
         ]_vars

\* the download of a long run was answered "not ok" with the status text
\* "429" and the run was rejected with that text, not as rate limited
C19_Witness ==
    /\ pc = "rejected"
    /\ duration = "long"
    /\ thrown.step = "download"
    /\ Len(Fetches) = 1
    /\ result = DownloadFailedPrefix \o Code429

----------------------------------------------------------------------------
(* C20 *)

\* C20: from the interface generateVideoFromImage is called, and a submit
\* issued, only with a non-empty prompt and the normalized form of a
\* selected image or video file, both as the invocation of
\* handleGenerateClick closed over them (the payload is whatever the
\* normalization gave: it is not looked at); no remote call is made outside
\* the awaited call; and an attempt with a file of an unsupported type, or
\* whose frame extraction fails, ends with an error message set, isLoading
\* false and not one remote call made.
C20_NoSubmitWithoutInputs ==
    /\ []( /\ handler # "pipeline" => pc = "idle" /\ trace = << >>
           /\ pc # "idle" =>
                 /\ handler = "pipeline"
                 /\ prompt # ""
                 /\ prompt = closure.prompt
                 /\ closure.mediaFile.present
                 /\ closure.mediaType \in { "image", "video" }
                 /\ closure.mediaType = MediaTypeOf(closure.mediaFile)
                 /\ imageMimeType = IF closure.mediaType = "image"
                                    THEN closure.mediaFile.type ELSE JpegType
                 /\ imageBase64 \in (IF closure.mediaType = "image"
                                     THEN FileBytes ELSE FrameBytes)
           /\ \A i \in DOMAIN Submits :
                 /\ Submits[i].a.prompt = prompt
                 /\ Submits[i].a.prompt # ""
                 /\ Submits[i].stage = INITIAL =>
                       Submits[i].a.image = [ imageBytes |-> imageBase64,
                                              mimeType |-> imageMimeType ] )
    /\ [][ ( \/ HandleGenerateClick /\ mediaType = NoMediaType
             \/ \E message \in { CanvasContextMessage, VideoLoadFailedMessage } :
                   FrameExtractionFails(message) ) =>
              /\ error' \in { InvalidMediaTypeMessage, CanvasContextMessage,
                              VideoLoadFailedMessage }
              /\ isLoading' = FALSE
              /\ generatedVideoUrl' = NoUrl
              /\ trace = << >> /\ trace' = << >>
              /\ pc = "idle" /\ pc' = "idle"
         ]_vars

\* Generate was clicked with a prompt and a text file selected: the attempt
\* has ended with the invalid-media-type error and no remote call
C20_Witness ==
    /\ mediaFile = TextFile
    /\ uiPrompt # ""
    /\ error = InvalidMediaTypeMessage
    /\ ~isLoading
    /\ pc = "idle" /\ trace = << >>

----------------------------------------------------------------------------
(* C21 *)

\* C21: the request of a run is fixed when the run starts.  An invocation
\* of handleGenerateClick closes over the prompt, file, aspect ratio and
\* duration shown when Generate is clicked and keeps them until it ends,
\* whatever the user edits meanwhile; the run it awaits has that prompt,
\* aspect ratio and duration as parameters from its call to its end; every
\* submit of the run, INITIAL and EXTENSION, carries that prompt and that
\* aspect ratio; and the run finalizes, extends and downloads the extended
\* video only if the captured duration is "long", and downloads the INITIAL
\* video only if it is "short".
C21_RequestFixedAtStart ==
    /\ []( handler = "pipeline" =>
             /\ prompt = closure.prompt
             /\ aspectRatio = closure.aspectRatio
             /\ duration = closure.duration
             /\ \A i \in DOMAIN Submits :
                   /\ Submits[i].a.prompt = closure.prompt
                   /\ Submits[i].a.aspectRatio = closure.aspectRatio
             /\ ( \/ Positions("submit", EXTENSION) # { }
                  \/ Carrying("progress", FinalizingInitial) # { }
                  \/ Carrying("progress", ExtendingVideo) # { }
                  \/ Carrying("progress", DownloadingExtended) # { } ) =>
                   closure.duration = "long"
             /\ Carrying("progress", DownloadingVideo) # { } =>
                   closure.duration = "short"
             /\ Len(Fetches) = 1 =>
                   Len(Submits) = IF closure.duration = "long" THEN 2 ELSE 1 )
    /\ [][ /\ (HandleGenerateClick /\ handler' = "input") =>
                closure' = [ prompt |-> uiPrompt, mediaFile |-> mediaFile,
                             mediaType |-> mediaType,
                             aspectRatio |-> uiAspectRatio,
                             duration |-> uiDuration ]
           /\ (handler # "idle" /\ handler' # "idle") =>
                /\ closure' = closure
                /\ pc # "idle" =>
                      << prompt, aspectRatio, duration >>' =
                      << prompt, aspectRatio, duration >>
         ]_vars

\* a long run has submitted its EXTENSION job with the prompt and aspect
\* ratio of its INITIAL submit after the user, with the run suspended, has
\* switched the duration control to "short"
C21_Witness ==
    /\ handler = "pipeline"
    /\ closure.duration = "long"
    /\ uiDuration = "short"
    /\ Len(Submits) = 2
    /\ Submits[2].stage = EXTENSION
    /\ Submits[2].a.prompt = Submits[1].a.prompt
    /\ Submits[2].a.aspectRatio = Submits[1].a.aspectRatio

====
